---- MODULE Spec2Model ----
(***************************************************************************)
(* A model of the nilch search front end: the page scripts results.js      *)
(* (web results, lines 1-280, and the image page's script, lines 282-400), *)
(* videos.js and the home page's script (unnamed/part_001).                *)
(*                                                                         *)
(* Text is a sequence of code units, each a one-character string.  A       *)
(* literal of the source whose characters never matter is kept as one      *)
(* chunk ("https://github.com/search?q=").  A document location is a path  *)
(* and the list of its decoded query parameters, in URL order, as          *)
(* URLSearchParams sees them.                                              *)
(***************************************************************************)
EXTENDS Integers, Sequences, FiniteSets, TLC

VARIABLES path, search, extUrl, doc, autoNavs, loads, last

vars == <<path, search, extUrl, doc, autoNavs, loads, last>>

(***************************************************************************)
(* Bounds of the model.                                                    *)
(***************************************************************************)
\* longest text typed into the search box / carried by q in SpecBang
MaxLen == 5
\* longest q of the initial locations of Spec and SpecNav
MaxQLen == 2
\* most result items in a payload of Spec
MaxResults == 2
\* the automatic re-navigation counter saturates here
MaxAuto == 2
\* most user navigations in a run of SpecNav
MaxLoads == 2
\* longest title / body of SpecTrunc beyond the truncation limits
TitleSlack == 2
BodySlack == 2

(***************************************************************************)
(* Text.                                                                   *)
(***************************************************************************)
\* the absent value: URLSearchParams.get on a missing key, an unset group
Null == <<"<null>">>

Letters == {"g", "G"}
\* members of the regular expression class \s (and of what trim() strips)
Whitespace == {" ", "\n"}
\* what the regular expression "." does not match
LineTerminators == {"\n"}
Alphabet == Letters \cup Whitespace \cup {"!", "&"}

RECURSIVE Texts(_, _)
Texts(alphabet, n) ==
    IF n = 0 THEN {<<>>}
    ELSE LET shorter == Texts(alphabet, n - 1)
         IN  shorter \cup {Append(t, c) : t \in {s \in shorter : Len(s) = n - 1}, c \in alphabet}

RECURSIVE Concat(_)
Concat(parts) ==
    IF parts = <<>> THEN <<>> ELSE Head(parts) \o Concat(Tail(parts))

\* String.prototype.trim
RECURSIVE TrimStart(_)
TrimStart(t) ==
    IF t # <<>> /\ Head(t) \in Whitespace THEN TrimStart(Tail(t)) ELSE t

RECURSIVE TrimEnd(_)
TrimEnd(t) ==
    IF t # <<>> /\ t[Len(t)] \in Whitespace THEN TrimEnd(SubSeq(t, 1, Len(t) - 1)) ELSE t

Trim(t) == TrimEnd(TrimStart(t))

\* a || b of the source, for values that are text or absent
OrDefault(v, d) == IF v = Null \/ v = <<>> THEN d ELSE v

\* encodeURIComponent: unreserved characters stay, the others become %XX (UTF-8)
EncodeChar(c) ==
    CASE c = " "  -> <<"%", "2", "0">>
      [] c = "\n" -> <<"%", "0", "A">>
      [] c = "&"  -> <<"%", "2", "6">>
      [] c = "%"  -> <<"%", "2", "5">>
      [] c = "="  -> <<"%", "3", "D">>
      [] c = "?"  -> <<"%", "3", "F">>
      [] OTHER    -> <<c>>

encodeURIComponent(t) ==
    IF t = Null THEN <<"n", "u", "l", "l">>
    ELSE Concat([i \in 1..Len(t) |-> EncodeChar(t[i])])

\* the percent-decoding URLSearchParams applies to a value of location.search
DecodeTriple(a, b) ==
    CASE a = "2" /\ b = "0" -> " "
      [] a = "0" /\ b = "A" -> "\n"
      [] a = "2" /\ b = "6" -> "&"
      [] a = "2" /\ b = "5" -> "%"
      [] a = "3" /\ b = "D" -> "="
      [] a = "3" /\ b = "F" -> "?"
      [] OTHER -> "?"

RECURSIVE PercentDecode(_)
PercentDecode(t) ==
    IF t = <<>> THEN <<>>
    ELSE IF Head(t) = "%" /\ Len(t) >= 3
         THEN <<DecodeTriple(t[2], t[3])>> \o PercentDecode(SubSeq(t, 4, Len(t)))
         ELSE IF Head(t) = "+" THEN <<" ">> \o PercentDecode(Tail(t))
         ELSE <<Head(t)>> \o PercentDecode(Tail(t))

(***************************************************************************)
(* URLSearchParams.                                                        *)
(***************************************************************************)
RECURSIVE Get(_, _)
Get(params, key) ==
    IF params = <<>> THEN Null
    ELSE IF Head(params)[1] = key THEN Head(params)[2]
    ELSE Get(Tail(params), key)

Has(params, key) == \E i \in 1..Len(params) : params[i][1] = key

FirstIndex(params, key) ==
    CHOOSE i \in 1..Len(params) :
        params[i][1] = key /\ \A j \in 1..(i - 1) : params[j][1] # key

\* set: the first pair of that name takes the value, the others of that name go
Set(params, key, value) ==
    IF ~Has(params, key) THEN Append(params, <<key, value>>)
    ELSE LET f == FirstIndex(params, key)
         IN  SelectSeq([i \in 1..Len(params) |->
                           IF i = f THEN <<key, value>>
                           ELSE IF params[i][1] = key THEN <<"", Null>>
                           ELSE params[i]],
                       LAMBDA p : p[2] # Null)

(***************************************************************************)
(* Numbers: parseInt of a parameter, and a number written into a URL.      *)
(***************************************************************************)
Digits == <<"0", "1", "2", "3", "4", "5", "6", "7", "8", "9">>

IsDigit(c) == \E d \in 1..10 : Digits[d] = c

DigitVal(c) == (CHOOSE d \in 1..10 : Digits[d] = c) - 1

\* the value of the longest prefix of digits of t, with acc the value so far
RECURSIVE DigitRun(_, _)
DigitRun(t, acc) ==
    IF t # <<>> /\ IsDigit(Head(t)) THEN DigitRun(Tail(t), 10 * acc + DigitVal(Head(t)))
    ELSE acc

\* parseInt(string): leading white space, a sign, then decimal digits; NaN
\* (nan = TRUE) when no digit follows
parseInt(t) ==
    LET s    == TrimStart(t)
        neg  == s # <<>> /\ Head(s) = "-"
        body == IF s # <<>> /\ Head(s) \in {"-", "+"} THEN Tail(s) ELSE s
    IN  IF body = <<>> \/ ~IsDigit(Head(body)) THEN [nan |-> TRUE, n |-> 0]
        ELSE [nan |-> FALSE, n |-> IF neg THEN 0 - DigitRun(body, 0) ELSE DigitRun(body, 0)]

\* String(i) for a number
RECURSIVE NatToText(_)
NatToText(i) ==
    IF i < 10 THEN <<Digits[i + 1]>> ELSE Append(NatToText(i \div 10), Digits[(i % 10) + 1])

NumToText(v) ==
    IF v.nan THEN <<"N", "a", "N">>
    ELSE IF v.n < 0 THEN <<"-">> \o NatToText(0 - v.n) ELSE NatToText(v.n)

(***************************************************************************)
(* The Bang Table (bangs.js, loaded by the pages before their script) and  *)
(* the Bang Resolver.                                                      *)
(***************************************************************************)
\* "{" + "{" + "{s}" + "}" + "}"
querySymbol == "{{{s}}}"

\* t: trigger, d: domain, u: URL template
bangs ==
    << [t |-> <<"g">>, d |-> <<"www.google.com">>,
        u |-> <<"https://www.google.com/search?q=", querySymbol>>],
       [t |-> <<"g", "g">>, d |-> <<"example.org">>,
        u |-> <<"https://example.org/">>] >>

Lower(c) == IF c = "G" THEN "g" ELSE c

\* FindBang with the triggers compared without regard to case
FindBang_IgnoreCase(cmd) ==
    LET folded == [i \in 1..Len(cmd) |-> Lower(cmd[i])]
    IN  IF \E i \in 1..Len(bangs) : bangs[i].t = folded
        THEN CHOOSE i \in 1..Len(bangs) : bangs[i].t = folded
        ELSE 0

\* bangs.find(item => item.t === cmd): the index of the first entry, 0 for none
FindBang(cmd) ==
    IF \E i \in 1..Len(bangs) : bangs[i].t = cmd
    THEN CHOOSE i \in 1..Len(bangs) :
             bangs[i].t = cmd /\ \A j \in 1..(i - 1) : bangs[j].t # cmd
    ELSE 0

\* String.prototype.replace with a string pattern: the first occurrence only
Replace(t, symbol, by) ==
    IF \E i \in 1..Len(t) : t[i] = symbol
    THEN LET f == CHOOSE i \in 1..Len(t) : t[i] = symbol /\ \A j \in 1..(i - 1) : t[j] # symbol
         IN  SubSeq(t, 1, f - 1) \o by \o SubSeq(t, f + 1, Len(t))
    ELSE t

\* the length of the longest run of letters of t from position 2 on
RECURSIVE LetterRun(_, _)
LetterRun(t, from) ==
    IF from <= Len(t) /\ t[from] \in Letters THEN 1 + LetterRun(t, from + 1) ELSE 0

\* query.match(/^!([a-zA-Z]+)(?:\s(.*))?$/): the groups, or matched = FALSE.
\* group 2 is Null when the optional part took no part in the match.
BangMatch(query) ==
    LET k    == LetterRun(query, 2)
        rest == SubSeq(query, k + 3, Len(query))
        none == [matched |-> FALSE, cmd |-> <<>>, search |-> Null]
    IN  IF query = <<>> \/ Head(query) # "!" \/ k = 0 THEN none
        ELSE IF Len(query) = k + 1
             THEN [matched |-> TRUE, cmd |-> SubSeq(query, 2, k + 1), search |-> Null]
        ELSE IF query[k + 2] \in Whitespace
                /\ \A i \in 1..Len(rest) : rest[i] \notin LineTerminators
             THEN [matched |-> TRUE, cmd |-> SubSeq(query, 2, k + 1), search |-> rest]
        ELSE none

NoHref == <<"<none>">>

\* BangTarget with the remainder put into the template as typed
BangTarget_Unencoded(entry, searchText) ==
    IF searchText = <<>> THEN <<"https://">> \o entry.d
    ELSE Replace(entry.u, querySymbol, searchText)

\* the redirect of a matched and known bang (results.js 42-47)
BangTarget(entry, searchText) ==
    IF searchText = <<>> THEN <<"https://">> \o entry.d
    ELSE Replace(entry.u, querySymbol, encodeURIComponent(searchText))

\* matchBang(query): what it returns and what it assigns to window.location.href
matchBang(query) ==
    LET m      == BangMatch(query)
        srch   == OrDefault(m.search, <<>>)
        result == FindBang(m.cmd)
    IN  IF m.matched /\ result # 0
        THEN [returns |-> TRUE, href |-> BangTarget(bangs[result], srch)]
        ELSE [returns |-> FALSE, href |-> NoHref]

(***************************************************************************)
(* A document: what a page's script has done since the page was loaded.    *)
(***************************************************************************)
SearchPages == {"results", "images", "videos"}

NoNav == [cause |-> "none", path |-> "", search |-> <<>>, url |-> <<>>]

NoBody == [kind |-> "none", results |-> <<>>, infobox |-> "absent", len |-> 0]

\* the containers as the markup leaves them: #results untouched, #infobox hidden
InitialHtml == [kind |-> "initial", link |-> <<>>]

HiddenInfobox == [display |-> "none", title |-> "", items |-> <<>>]

\* a document with no script of this model running: another site, a missing page
StaticDoc ==
    [pc |-> "static", requests |-> <<>>, response |-> NoBody,
     resultsHtml |-> InitialHtml, items |-> <<>>, infobox |-> HiddenInfobox,
     pagination |-> <<>>, nav |-> NoNav, locationUrl |-> Null, searchInput |-> <<>>]

\* results.js 1-8, videos.js 1-5, results.js 282-285: the parameters a script reads
query(params) == Get(params, "q")
safeSearch(params) == OrDefault(Get(params, "safe"), <<"strict">>)
failed(params) == OrDefault(Get(params, "failed"), <<"false">>)
page(params) == parseInt(OrDefault(Get(params, "page"), <<"0">>))
language(params) == OrDefault(Get(params, "lang"), <<"en-GB">>)
engine(params) == OrDefault(Get(params, "engine"), <<"duckduckgo">>)

\* the URL the script fetches, by its parts, as concatenated
WebRequest(params) ==
    [endpoint |-> "/api/search", videos |-> FALSE, q |-> encodeURIComponent(query(params)),
     safe |-> safeSearch(params), page |-> NumToText(page(params)),
     language |-> language(params), engine |-> engine(params)]

VideoRequest(params) ==
    [endpoint |-> "/api/search", videos |-> TRUE, q |-> encodeURIComponent(query(params)),
     safe |-> safeSearch(params), page |-> NumToText(page(params)),
     language |-> Null, engine |-> Null]

ImageRequest(params) ==
    [endpoint |-> "/api/images", videos |-> FALSE, q |-> encodeURIComponent(query(params)),
     safe |-> safeSearch(params), page |-> Null, language |-> Null, engine |-> Null]

\* if (query) { ... searchInput.value = query ... }: the box is empty in the markup
SearchInputOnLoad(params) ==
    IF query(params) = Null \/ query(params) = <<>> THEN <<>> ELSE query(params)

\* if (searchInput.value.trim()) { matchBang(query); }   (results.js 248-250)
OnLoadBang(params) ==
    IF Trim(SearchInputOnLoad(params)) # <<>> /\ matchBang(query(params)).returns
    THEN [cause |-> "bang", path |-> "external", search |-> <<>>,
          url |-> matchBang(query(params)).href]
    ELSE NoNav

\* the synchronous part of results.js: the request leaves (109-111) before the
\* bang is looked at (248-250)
LoadWeb(params) ==
    [StaticDoc EXCEPT !.pc = "awaiting", !.requests = <<WebRequest(params)>>,
                      !.searchInput = SearchInputOnLoad(params),
                      !.nav = OnLoadBang(params)]

\* the synchronous part of videos.js (88-90, then 152-162)
LoadVideo(params) ==
    [StaticDoc EXCEPT !.pc = "awaiting", !.requests = <<VideoRequest(params)>>,
                      !.searchInput = SearchInputOnLoad(params),
                      !.nav = OnLoadBang(params)]

\* the synchronous part of the image page's script (results.js 338-342, 377-383):
\* no bang is looked at on load
LoadImages(params) ==
    [StaticDoc EXCEPT !.pc = "awaiting", !.requests = <<ImageRequest(params)>>,
                      !.searchInput = SearchInputOnLoad(params)]

LoadDoc(p, params) ==
    CASE p = "results" -> LoadWeb(params)
      [] p = "videos"  -> LoadVideo(params)
      [] p = "images"  -> LoadImages(params)
      [] OTHER         -> StaticDoc

(***************************************************************************)
(* What the backend may answer; neterror is a fetch that rejects.  By kind: *)
(*   noquery, noresults  the literal text                                  *)
(*   malformed    text JSON.parse rejects                                  *)
(*   null         the JSON text null                                       *)
(*   nolist       a number, a boolean, or an object with no length member  *)
(*                whose results member is missing or null: 5, true, {},    *)
(*                {"foo": 1}, {"results": null}                            *)
(*   lengthless   an object with no length member whose results member is  *)
(*                a number, a boolean or an object with no length member:  *)
(*                {"results": 5}, {"results": {}}; it may hold an infobox  *)
(*   string       a JSON string of len >= 1 characters: "ab"               *)
(*   arraylike    an object with a length member len >= 1 and no indexed   *)
(*                and no results member: {"length": 2}                     *)
(*   payload      what the endpoint of the page answers with: for the web  *)
(*                and the video page an object whose results member is a   *)
(*                list of well-formed results (href a URL, title, body;    *)
(*                for a video its images), with or without an infobox; for *)
(*                the image page the bare list                             *)
(***************************************************************************)
InfoboxKinds == {"null", "absent", "calc", "definition", "wikipedia", "other"}

\* the infobox field of a payload: the string "null", no field, or an object
\* whose infotype is calc, definition, wikipedia or something else
Truthy(infoboxData) == infoboxData \in {"calc", "definition", "wikipedia", "other"}

Payload(items, box) ==
    [kind |-> "payload", results |-> items, infobox |-> box, len |-> Len(items)]

Sentinel(k) == [kind |-> k, results |-> <<>>, infobox |-> "absent", len |-> 0]

Lengthless(box) == [Sentinel("lengthless") EXCEPT !.infobox = box]

StringBody(n) == [Sentinel("string") EXCEPT !.len = n]

ArrayLike(n) == [Sentinel("arraylike") EXCEPT !.len = n]

(***************************************************************************)
(* The Result Renderer's truncation (results.js 142-145, 163-166).         *)
(***************************************************************************)
TitleLimit == 60
SnippetLimit == 300

Ellipsis == <<".", ".", ".">>

\* TruncateTitle with >= for >
TruncateTitle_AtLimit(rawTitle) ==
    IF Len(rawTitle) >= TitleLimit THEN SubSeq(rawTitle, 1, TitleLimit) \o Ellipsis
    ELSE rawTitle

\* rawTitle.length > 60 ? rawTitle.slice(0, 60) + "..." : rawTitle
TruncateTitle(rawTitle) ==
    IF Len(rawTitle) > TitleLimit THEN SubSeq(rawTitle, 1, TitleLimit) \o Ellipsis
    ELSE rawTitle

\* rawDescription.length > 300 ? rawDescription.slice(0, 300) + "..." : rawDescription
TruncateSnippet(rawDescription) ==
    IF Len(rawDescription) > SnippetLimit
    THEN SubSeq(rawDescription, 1, SnippetLimit) \o Ellipsis
    ELSE rawDescription

\* one result div of the web page (results.js 134-179)
RenderWebItem(result) ==
    [title |-> TruncateTitle(result.title), snippet |-> TruncateSnippet(result.body)]

(***************************************************************************)
(* The Pagination Controller.                                              *)
(***************************************************************************)
TotalPages == 9

\* createPagination with the loop stopping at i < totalPages
createPagination_ShortLoop(totalPages, currentPage, p, params) ==
    [k \in 1..totalPages |->
        LET i == k - 1
        IN  [href   |-> [path |-> p, search |-> Set(params, "page", NatToText(i))],
             text   |-> i + 1,
             active |-> ~currentPage.nan /\ i = currentPage.n]]

\* results.js 82-104: each link is the current parameters with page set to i
createPagination(totalPages, currentPage, p, params) ==
    [k \in 1..(totalPages + 1) |->
        LET i == k - 1
        IN  [href   |-> [path |-> p, search |-> Set(params, "page", NatToText(i))],
             text   |-> i + 1,
             active |-> ~currentPage.nan /\ i = currentPage.n]]

\* window.location.href + "&page=" + i: a pair appended to the parameters; with
\* no parameter at all the text lands in the path, which names no page
AppendToHref(p, params, key, value) ==
    IF params = <<>> THEN [path |-> "notfound", search |-> <<>>]
    ELSE [path |-> p, search |-> Append(params, <<key, value>>)]

\* videos.js 63-83
createPaginationVideo(totalPages, currentPage, p, params) ==
    [k \in 1..(totalPages + 1) |->
        LET i == k - 1
        IN  [href   |-> AppendToHref(p, params, "page", NatToText(i)),
             text   |-> i + 1,
             active |-> ~currentPage.nan /\ i = currentPage.n]]

(***************************************************************************)
(* The Infobox Renderer (results.js 126, 182-233).                         *)
(***************************************************************************)
\* (resultsData.infobox == "null") ? null : resultsData.infobox
InfoboxData(field) == IF field = "null" THEN "absent" ELSE field

RenderInfobox(box, infoboxData) ==
    IF ~Truthy(infoboxData) THEN box
    ELSE CASE infoboxData = "calc" ->
                [display |-> "block", title |-> "Calculator",
                 items |-> Append(box.items, "calc")]
           [] infoboxData = "definition" ->
                [display |-> "block", title |-> "Dictionary",
                 items |-> Append(box.items, "definition")]
           [] infoboxData = "wikipedia" ->
                [display |-> "block", title |-> "infoboxData.title",
                 items |-> Append(box.items, "wikipedia")]
           [] OTHER -> [box EXCEPT !.display = "block"]

(***************************************************************************)
(* The web page's handling of the response (results.js 107-238).           *)
(***************************************************************************)
Message(k) == [kind |-> k, link |-> <<>>]

\* the catch block: the error text replaces what #results holds
Caught(d) == [d EXCEPT !.pc = "done", !.resultsHtml = Message("error"), !.items = <<>>]

\* the text read from window.location.url, a property no script has set
UrlText(d) == IF d.locationUrl = Null THEN <<"undefined">> ELSE d.locationUrl

\* WebNoResults with the marker never looked at and the retry navigating
WebNoResults_NoMarkerCheck(d, params) ==
    Caught([d EXCEPT !.nav = [cause |-> "retry", path |-> "results",
                              search |-> Append(params, <<"failed", <<"true">>>>),
                              url |-> <<>>]])

\* results.js 115-123, then 124 for the branch that does not return: the
\* assignment is to window.location.url, which navigates nowhere, and
\* JSON.parse("noresults") throws into the catch block
WebNoResults(d, params) ==
    IF failed(params) = <<"true">>
    THEN [d EXCEPT !.pc = "done",
                   !.resultsHtml = [kind |-> "ratelimit",
                                    link |-> <<"https://duckduckgo.com/">>
                                             \o encodeURIComponent(query(params))]]
    ELSE Caught([d EXCEPT !.locationUrl = UrlText(d) \o <<"&failed=true">>])

\* WebPayload(d, p, params, body) without the test for an empty result list
WebPayload_NoEmptyCheck(d, p, params, body) ==
    IF body.kind # "payload" THEN Caught(d)
    ELSE [d EXCEPT !.pc = "done",
                   !.resultsHtml = [kind |-> "cleared", link |-> <<>>],
                   !.items = [r \in 1..Len(body.results) |-> RenderWebItem(body.results[r])],
                   !.infobox = RenderInfobox(d.infobox, InfoboxData(body.infobox))]

\* results.js 124-233.  A results member without a length passes the test
\* searchResults.length == 0 (undefined == 0 is false) and the loop runs no
\* round: #results is cleared, the strip and the infobox are rendered.  Every
\* other body that is no payload throws on the way: null.results,
\* undefined.length, null.length.
WebPayload(d, p, params, body) ==
    IF body.kind = "lengthless"
    THEN [d EXCEPT !.pc = "done",
                   !.resultsHtml = Message("cleared"),
                   !.pagination = createPagination(TotalPages, page(params), p, params),
                   !.infobox = RenderInfobox(d.infobox, InfoboxData(body.infobox))]
    ELSE IF body.kind # "payload" THEN Caught(d)
    ELSE IF Len(body.results) = 0
         THEN [d EXCEPT !.pc = "done", !.resultsHtml = Message("empty")]
    ELSE [d EXCEPT !.pc = "done",
                   !.resultsHtml = Message("cleared"),
                   !.items = [r \in 1..Len(body.results) |-> RenderWebItem(body.results[r])],
                   !.pagination = createPagination(TotalPages, page(params), p, params),
                   !.infobox = RenderInfobox(d.infobox, InfoboxData(body.infobox))]

HandleWeb(d, p, params, body) ==
    LET got == [d EXCEPT !.response = body]
    IN  CASE body.kind = "neterror"  -> Caught(got)
          [] body.kind = "noquery"   ->
                [got EXCEPT !.pc = "done", !.resultsHtml = Message("noquery")]
          [] body.kind = "noresults" -> WebNoResults(got, params)
          [] OTHER                   -> WebPayload(got, p, params, body)

(***************************************************************************)
(* The video page's handling of the response (videos.js 86-150).           *)
(***************************************************************************)
\* one card: video.title || "Untitled Video"
RenderVideoCard(video) ==
    [title |-> OrDefault(video.title, <<"Untitled Video">>), snippet |-> <<>>]

\* VideoNoResults with the retry marker of the web page: one reload that sets
\* failed=true, then the message
VideoNoResults_WithMarker(d, p, params) ==
    IF failed(params) = <<"true">>
    THEN [d EXCEPT !.pc = "done", !.resultsHtml = Message("noresults")]
    ELSE Caught([d EXCEPT !.nav = [cause |-> "reload", path |-> p,
                                   search |-> Set(params, "failed", <<"true">>),
                                   url |-> <<>>]])

\* VideoNoResults with the request sent again within the load instead of a reload
VideoNoResults_Refetch(d, p, params) ==
    Caught([d EXCEPT !.requests = Append(@, VideoRequest(params))])

\* videos.js 94-97: reload, then JSON.parse("noresults") throws into the catch
VideoNoResults(d, p, params) ==
    Caught([d EXCEPT !.nav = [cause |-> "reload", path |-> p, search |-> params,
                              url |-> <<>>]])

\* videos.js 97-145: the cards go to #videoResults, #results is left alone;
\* a body that is no payload throws: at JSON.parse, at null.results, or at
\* resultsData.forEach, which only a list has
VideoPayload(d, p, params, body) ==
    IF body.kind # "payload" THEN Caught(d)
    ELSE [d EXCEPT !.pc = "done",
                   !.items = [r \in 1..Len(body.results) |-> RenderVideoCard(body.results[r])],
                   !.pagination = createPaginationVideo(TotalPages, page(params), p, params)]

HandleVideo(d, p, params, body) ==
    LET got == [d EXCEPT !.response = body]
    IN  CASE body.kind = "neterror"  -> Caught(got)
          [] body.kind = "noquery"   ->
                [got EXCEPT !.pc = "done", !.resultsHtml = Message("noquery")]
          [] body.kind = "noresults" -> VideoNoResults(got, p, params)
          [] OTHER                   -> VideoPayload(got, p, params, body)

(***************************************************************************)
(* The image page's handling of the response (results.js 338-375).         *)
(***************************************************************************)
HandleImages(d, body) ==
    LET got == [d EXCEPT !.response = body]
    IN  CASE body.kind = "neterror"  -> Caught(got)
          [] body.kind = "noquery"   ->
                [got EXCEPT !.pc = "done", !.resultsHtml = Message("noquery")]
          [] body.kind = "noresults" ->
                [got EXCEPT !.pc = "done", !.resultsHtml = Message("noresults")]
          [] body.kind = "malformed" -> Caught(got)
          \* null.length throws, and so does searchResults[0].image where
          \* there is a length and no element
          [] body.kind \in {"null", "arraylike"} -> Caught(got)
          \* no length: searchResults.length is undefined, the loop runs no
          \* round and nothing is written to #results
          [] body.kind \in {"nolist", "lengthless"} -> [got EXCEPT !.pc = "done"]
          \* a string: one .image-item for each character
          [] body.kind = "string" ->
                [got EXCEPT !.pc = "done",
                            !.items = [r \in 1..body.len |->
                                          [title |-> <<>>, snippet |-> <<>>]]]
          [] OTHER ->
                [got EXCEPT !.pc = "done",
                            !.items = [r \in 1..Len(body.results) |->
                                          [title |-> <<>>, snippet |-> <<>>]]]

\* img.onerror (results.js 361-363): the image's .image-item is removed
RemoveAt(items, k) == SubSeq(items, 1, k - 1) \o SubSeq(items, k + 1, Len(items))

HandleResponse(d, p, params, body) ==
    CASE p = "results" -> HandleWeb(d, p, params, body)
      [] p = "videos"  -> HandleVideo(d, p, params, body)
      [] p = "images"  -> HandleImages(d, body)
      [] OTHER         -> d

(***************************************************************************)
(* The state machine of page loads: the locations a page may be opened at, *)
(* the response arriving, and the browser following a navigation the       *)
(* script has asked for.                                                   *)
(***************************************************************************)
\* the last thing the user did: where, with what input, and the text the
\* handler assigned to window.location.href, if it assigned any
NoOp == [op |-> "none", on |-> "", input |-> <<>>, navigated |-> FALSE, href |-> <<>>]

QAlphabet == {"!", "g", " "}

QTexts == Texts(QAlphabet, MaxQLen)

\* zero or one pair of the given name
Optional(key, values) == {<<>>} \cup {<<(<<key, v>>)>> : v \in values}

InitSearches ==
    {a \o b \o c \o e :
        a \in Optional("q", QTexts),
        b \in Optional("safe", {<<"off">>, <<"bogus">>}),
        c \in Optional("page", {<<"0">>, <<"3">>, <<"9">>, <<"1", "2">>, <<"x">>}),
        e \in Optional("failed", {<<"true">>, <<"false">>})}

SampleItem == [title |-> <<"t">>, body |-> <<"b">>]

ItemLists == {[r \in 1..n |-> SampleItem] : n \in 0..MaxResults}

Bodies ==
    {Sentinel(k) : k \in {"noquery", "noresults", "malformed", "null", "nolist",
                          "neterror"}}
    \cup {Lengthless(box) : box \in InfoboxKinds}
    \cup {StringBody(n) : n \in 1..MaxResults}
    \cup {ArrayLike(n) : n \in 1..MaxResults}
    \cup {Payload(items, box) : items \in ItemLists, box \in InfoboxKinds}

Min(a, b) == IF a < b THEN a ELSE b

\* what the user can do to a page: the cause of the navigation it asks for
UserOps == {"handleSearch", "toggleSafeSearch", "changeLanguage", "changeEngine", "page"}

Init ==
    /\ path \in SearchPages
    /\ search \in InitSearches
    /\ doc = LoadDoc(path, search)
    /\ extUrl = <<>>
    /\ autoNavs = 0
    /\ loads = 0
    /\ last = NoOp

\* the awaited fetch settles and the rest of the async function runs
Receive(body) ==
    /\ path \in SearchPages
    /\ doc.pc = "awaiting"
    /\ doc' = HandleResponse(doc, path, search, body)
    /\ UNCHANGED <<path, search, extUrl, autoNavs, loads, last>>

ReceiveAny ==
    /\ doc.pc = "awaiting"
    /\ \E body \in Bodies : Receive(body)

\* the browser follows the navigation the script asked for: the document is
\* discarded and the target's script runs from the top
Commit ==
    /\ doc.nav # NoNav
    /\ path' = doc.nav.path
    /\ search' = doc.nav.search
    /\ extUrl' = doc.nav.url
    /\ doc' = LoadDoc(doc.nav.path, doc.nav.search)
    /\ autoNavs' = IF doc.nav.cause \in {"retry", "reload"}
                   THEN Min(autoNavs + 1, MaxAuto)
                   ELSE IF doc.nav.cause \in UserOps THEN 0 ELSE autoNavs
    /\ loads' = IF doc.nav.cause \in UserOps THEN loads + 1 ELSE loads
    /\ UNCHANGED last

\* an image of the image page fails to load: its onerror callback runs
ImageError ==
    /\ path = "images"
    /\ doc.items # <<>>
    /\ \E k \in 1..Len(doc.items) : doc' = [doc EXCEPT !.items = RemoveAt(@, k)]
    /\ UNCHANGED <<path, search, extUrl, autoNavs, loads, last>>

Next == ReceiveAny \/ Commit \/ ImageError

Spec == Init /\ [][Next]_vars

(***************************************************************************)
(* The same loads against a backend that finds nothing: every request is   *)
(* answered noresults.  The fetch settles and the browser carries out the  *)
(* navigation or reload a script asked for, hence the weak fairness.       *)
(***************************************************************************)
StarvedBodies == {Sentinel("noresults")}

ReceiveNoResults ==
    /\ doc.pc = "awaiting"
    /\ \E body \in StarvedBodies : Receive(body)

\* with or without a query (plain, a known bang, a lone "!"), safe and failed
StarvedSearches ==
    {a \o b \o c :
        a \in Optional("q", {<<"g">>, <<"!", "g">>, <<"!">>}),
        b \in Optional("safe", {<<"off">>}),
        c \in Optional("failed", {<<"true">>, <<"false">>})}

InitStarved ==
    /\ path \in SearchPages
    /\ search \in StarvedSearches
    /\ doc = LoadDoc(path, search)
    /\ extUrl = <<>>
    /\ autoNavs = 0
    /\ loads = 0
    /\ last = NoOp

NextStarved == ReceiveNoResults \/ Commit

SpecStarved ==
    InitStarved /\ [][NextStarved]_vars /\ WF_vars(ReceiveNoResults) /\ WF_vars(Commit)

(***************************************************************************)
(* What the user does: submits the search form, follows a page link, flips *)
(* safe search, picks a language or an engine.  The handler assigns the    *)
(* location and returns; the browser follows in a step of its own.         *)
(***************************************************************************)
AppPages == SearchPages \cup {"index"}

\* the literal the query is appended to: 'results.html?q=' on the home page
\* (part_001 40), '?q=' elsewhere (results.js 61, 332; videos.js 58)
SearchPrefix(p) == IF p = "index" THEN "results.html?q=" ELSE "?q="

\* the location a '?q=' + encodeURIComponent(query) reference leads to from
\* page p: the one parameter q, percent-decoded by URLSearchParams
ResolveSearchHref(p, href) ==
    [path   |-> IF Head(href) = "results.html?q=" THEN "results" ELSE p,
     search |-> <<(<<"q", PercentDecode(Tail(href))>>)>>,
     url    |-> <<>>]

\* handleSearch taking the text of the box as it is, untrimmed
handleSearch_NoTrim(p, text) ==
    LET b == matchBang(text)
        href == <<SearchPrefix(p)>> \o encodeURIComponent(text)
    IN  IF text = <<>>
        THEN [navigated |-> FALSE, href |-> <<>>,
              target |-> [path |-> p, search |-> <<>>, url |-> <<>>]]
        ELSE IF b.returns
        THEN [navigated |-> TRUE, href |-> b.href,
              target |-> [path |-> "external", search |-> <<>>, url |-> b.href]]
        ELSE [navigated |-> TRUE, href |-> href, target |-> ResolveSearchHref(p, href)]

\* handleSearch (part_001 21-43; results.js 54-64, 313-335; videos.js 51-61)
handleSearch(p, text) ==
    LET q == Trim(text)
        b == matchBang(q)
        href == <<SearchPrefix(p)>> \o encodeURIComponent(q)
    IN  IF q = <<>>
        THEN [navigated |-> FALSE, href |-> <<>>,
              target |-> [path |-> p, search |-> <<>>, url |-> <<>>]]
        ELSE IF b.returns
        THEN [navigated |-> TRUE, href |-> b.href,
              target |-> [path |-> "external", search |-> <<>>, url |-> b.href]]
        ELSE [navigated |-> TRUE, href |-> href, target |-> ResolveSearchHref(p, href)]

\* toggleSafeSearch building its target from the query and the new value alone
toggleSafeSearch_Fresh(p, params) ==
    LET current  == OrDefault(Get(params, "safe"), <<"strict">>)
        newValue == IF current = <<"strict">> THEN <<"off">> ELSE <<"strict">>
    IN  [path |-> p,
         search |-> Set(SelectSeq(params, LAMBDA pr : pr[1] = "q"), "safe", newValue),
         url |-> <<>>]

\* toggleSafeSearch (results.js 252-258, 385-391; videos.js 164-170)
toggleSafeSearch(p, params) ==
    LET current  == OrDefault(Get(params, "safe"), <<"strict">>)
        newValue == IF current = <<"strict">> THEN <<"off">> ELSE <<"strict">>
    IN  [path |-> p, search |-> Set(params, "safe", newValue), url |-> <<>>]

\* changeLanguage (results.js 66-72)
changeLanguage(p, params, newLang) ==
    [path |-> p, search |-> Set(params, "lang", newLang), url |-> <<>>]

\* changeEngine (results.js 74-80)
changeEngine(p, params, newEngine) ==
    [path |-> p, search |-> Set(params, "engine", newEngine), url |-> <<>>]

\* the options of the two select elements
Languages == {<<"en-GB">>, <<"de">>}
Engines == {<<"duckduckgo">>, <<"brave">>}

\* window.location.href = ... in the handler of the user's operation op: the
\* navigation is asked for, in place of any asked for before, and the handler
\* returns; the document stays, its request pending, until the browser
\* follows (Commit).  d is the document the handler ran in.
Navigate(d, op, input, href, target) ==
    /\ doc' = [d EXCEPT !.nav = [cause |-> op, path |-> target.path,
                                 search |-> target.search, url |-> target.url]]
    /\ last' = [op |-> op, on |-> path, input |-> input, navigated |-> TRUE,
                href |-> href]
    /\ UNCHANGED <<path, search, extUrl, autoNavs, loads>>

\* the user types text into the search box and submits the form
Submit(text) ==
    /\ path \in AppPages
    /\ LET r == handleSearch(path, text)
           typed == [doc EXCEPT !.searchInput = text]
       IN  IF r.navigated
           THEN Navigate(typed, "handleSearch", text, r.href, r.target)
           ELSE /\ doc' = typed
                /\ last' = [op |-> "handleSearch", on |-> path, input |-> text,
                            navigated |-> FALSE, href |-> <<>>]
                /\ UNCHANGED <<path, search, extUrl, autoNavs, loads>>

ToggleSafe ==
    /\ path \in SearchPages
    /\ loads < MaxLoads
    /\ Navigate(doc, "toggleSafeSearch", <<>>, <<>>, toggleSafeSearch(path, search))

ChangeLanguage ==
    /\ path = "results"
    /\ loads < MaxLoads
    /\ \E newLang \in Languages :
          Navigate(doc, "changeLanguage", newLang, <<>>,
                   changeLanguage(path, search, newLang))

ChangeEngine ==
    /\ path = "results"
    /\ loads < MaxLoads
    /\ \E newEngine \in Engines :
          Navigate(doc, "changeEngine", newEngine, <<>>,
                   changeEngine(path, search, newEngine))

\* the user follows link i of the pagination strip
ClickPage ==
    /\ doc.pagination # <<>>
    /\ loads < MaxLoads
    /\ \E k \in 1..Len(doc.pagination) :
          Navigate(doc, "page", NatToText(k - 1), <<>>,
                   doc.pagination[k].href @@ [url |-> <<>>])

\* what is typed into the box: nothing, white space, a query with white
\* space around it, a known bang, a lone "!"
NavTexts == {<<>>, <<" ">>, <<" ", "g", " ">>, <<"!", "g">>, <<"!">>}

SubmitNav ==
    /\ loads < MaxLoads
    /\ \E text \in NavTexts : Submit(text)

\* a backend that answers every request with one result and no infobox
HealthyBodies == {Payload(<<SampleItem>>, "absent")}

ReceiveHealthy ==
    /\ doc.pc = "awaiting"
    /\ \E body \in HealthyBodies : Receive(body)

NavSearches ==
    { <<>>,
      <<(<<"q", <<"g">>>>)>>,
      <<(<<"q", <<"g">>>>), (<<"failed", <<"true">>>>)>>,
      <<(<<"q", <<"g">>>>), (<<"page", <<"3">>>>)>> }

InitNav ==
    /\ path \in AppPages
    /\ search \in NavSearches
    /\ doc = LoadDoc(path, search)
    /\ extUrl = <<>>
    /\ autoNavs = 0
    /\ loads = 0
    /\ last = NoOp

NextNav ==
    \/ ReceiveHealthy \/ Commit \/ ImageError
    \/ SubmitNav \/ ToggleSafe \/ ChangeLanguage \/ ChangeEngine \/ ClickPage

SpecNav == InitNav /\ [][NextNav]_vars

\* the search form alone, on the same pages
NextSubmit == ReceiveHealthy \/ Commit \/ SubmitNav

SpecSubmit == InitNav /\ [][NextSubmit]_vars

(***************************************************************************)
(* The three controls that change one parameter, from pages opened with    *)
(* any mix of parameters, well-formed or not.                              *)
(***************************************************************************)
FrameSearches ==
    {a \o b \o c \o e \o f :
        a \in Optional("q", {<<"g">>, <<"g", " ", "&">>}),
        b \in Optional("safe", {<<"strict">>, <<"off">>, <<"bogus">>}),
        c \in Optional("page", {<<"3">>, <<"x">>}),
        e \in Optional("failed", {<<"true">>}),
        f \in Optional("lang", {<<"de">>})}

InitFrame ==
    /\ path \in SearchPages
    /\ search \in FrameSearches
    /\ doc = LoadDoc(path, search)
    /\ extUrl = <<>>
    /\ autoNavs = 0
    /\ loads = 0
    /\ last = NoOp

NextFrame == ToggleSafe \/ ChangeLanguage \/ ChangeEngine \/ Commit

SpecFrame == InitFrame /\ [][NextFrame]_vars

(***************************************************************************)
(* The Bang Resolver over every short text: typed into the search box of a *)
(* page opened without parameters, or carried by q when a page is opened.  *)
(***************************************************************************)
BangTexts == Texts(Alphabet, MaxLen)

BangSearches == {<<>>} \cup {<<(<<"q", s>>)>> : s \in BangTexts}

InitBang ==
    /\ path \in AppPages
    /\ search \in BangSearches
    /\ doc = LoadDoc(path, search)
    /\ extUrl = <<>>
    /\ autoNavs = 0
    /\ loads = 0
    /\ last = NoOp

\* one submission, into the box of a page opened without parameters
SubmitBang ==
    /\ last = NoOp
    /\ search = <<>>
    /\ \E text \in BangTexts : Submit(text)

NextBang == SubmitBang \/ Commit

SpecBang == InitBang /\ [][NextBang]_vars

(***************************************************************************)
(* The Result Renderer over titles and bodies around the two limits: one   *)
(* web result of every pair of lengths.                                    *)
(***************************************************************************)
\* a text of n characters, no two neighbours alike
Filler(n) == [i \in 1..n |-> Digits[(i % 10) + 1]]

LongBodies ==
    {Payload(<<[title |-> Filler(n), body |-> Filler(m)]>>, "absent") :
        n \in 0..(TitleLimit + TitleSlack), m \in 0..(SnippetLimit + BodySlack)}

ReceiveLong ==
    /\ doc.pc = "awaiting"
    /\ \E body \in LongBodies : Receive(body)

InitTrunc ==
    /\ path = "results"
    /\ search = <<(<<"q", <<"g">>>>)>>
    /\ doc = LoadDoc(path, search)
    /\ extUrl = <<>>
    /\ autoNavs = 0
    /\ loads = 0
    /\ last = NoOp

NextTrunc == ReceiveLong

SpecTrunc == InitTrunc /\ [][NextTrunc]_vars

(***************************************************************************)
(* Properties.                                                             *)
(***************************************************************************)
Recognised == {"calc", "definition", "wikipedia"}

\* the bang syntax as the specification words it: "!", one or more letters,
\* then nothing or one white-space character and a remainder
TriggerEnds(s) ==
    {k \in 1..(Len(s) - 1) :
        /\ \A j \in 2..(k + 1) : s[j] \in Letters
        /\ (k + 1 = Len(s) \/ s[k + 2] \in Whitespace)}

HasBangShape(s) == s # Null /\ Len(s) >= 2 /\ s[1] = "!" /\ TriggerEnds(s) # {}

TriggerOf(s) == SubSeq(s, 2, (CHOOSE k \in TriggerEnds(s) : TRUE) + 1)

RemainderOf(s) == SubSeq(s, (CHOOSE k \in TriggerEnds(s) : TRUE) + 3, Len(s))

InTable(trigger) == \E i \in 1..Len(bangs) : bangs[i].t = trigger

EntryOf(trigger) == bangs[CHOOSE i \in 1..Len(bangs) : bangs[i].t = trigger]

KnownBang(s) == HasBangShape(s) /\ InTable(TriggerOf(s))

OneLine(t) == \A i \in 1..Len(t) : t[i] \notin LineTerminators

\* href is what the claim says a known bang s is redirected to
RedirectsAsClaimed(s, href) ==
    LET e == EntryOf(TriggerOf(s))
        r == RemainderOf(s)
    IN  /\ r = <<>> => href = <<"https://">> \o e.d
        /\ \A i \in 1..Len(e.u) :
              (r # <<>> /\ e.u[i] = querySymbol) =>
                  href = SubSeq(e.u, 1, i - 1) \o encodeURIComponent(r)
                         \o SubSeq(e.u, i + 1, Len(e.u))

\* C1: on the web page, a noresults body for a query with no retry marker
\* (and no bang redirect under way) makes the load ask for one navigation to the same page
\* with failed=true added and writes no message to the results container.
C1_FirstNoResultsRetries ==
    (/\ path = "results"
     /\ doc.response.kind = "noresults"
     /\ OrDefault(Get(search, "q"), <<>>) # <<>>
     /\ Get(search, "failed") # <<"true">>
     /\ doc.nav.cause # "bang")
    => /\ doc.nav.cause = "retry"
       /\ doc.nav.path = "results"
       /\ Get(doc.nav.search, "failed") = <<"true">>
       /\ doc.resultsHtml = InitialHtml

\* C2: on the web page, a noresults body with failed=true ends the load with
\* the rate-limit message, whose link is the alternate engine followed by the
\* percent-encoded query, and with no retry or reload asked for; and the web
\* page never re-navigates by itself more than once.
C2_ExhaustedIsTerminal ==
    /\ (/\ path = "results"
        /\ doc.response.kind = "noresults"
        /\ Get(search, "failed") = <<"true">>)
       => /\ doc.pc = "done"
          /\ doc.resultsHtml.kind = "ratelimit"
          /\ Head(doc.resultsHtml.link) = "https://duckduckgo.com/"
          /\ Get(search, "q") # Null =>
                /\ Tail(doc.resultsHtml.link) = encodeURIComponent(Get(search, "q"))
                /\ PercentDecode(Tail(doc.resultsHtml.link)) = Get(search, "q")
          /\ doc.nav.cause \in {"none", "bang"}
          /\ doc.locationUrl = Null
    /\ path = "results" => autoNavs <= 1

C2_Witness ==
    /\ path = "results"
    /\ doc.response.kind = "noresults"
    /\ Get(search, "failed") = <<"true">>
    /\ Get(search, "q") = <<"g", " ">>
    /\ doc.resultsHtml.kind = "ratelimit"
    /\ doc.nav = NoNav

\* C3: a load of a search page whose query is a bang with a known trigger asks
\* for the redirect and has issued no backend request.
C3_BangSuppressesRequest ==
    (path \in SearchPages /\ KnownBang(Get(search, "q")))
    => (doc.requests = <<>> /\ doc.nav.cause = "bang")

\* C4 (as amended): a known bang whose remainder holds no line terminator is
\* redirected, from the search form (the redirect asked for, then followed by
\* the browser) and on load alike: to https:// + domain
\* when the remainder is empty, else to the template with the placeholder
\* replaced by the percent-encoded remainder.
C4_KnownBangRedirects ==
    /\ (last.op = "handleSearch" /\ KnownBang(Trim(last.input))
            /\ OneLine(RemainderOf(Trim(last.input))))
       => /\ last.navigated
          /\ RedirectsAsClaimed(Trim(last.input), last.href)
          /\ \/ /\ doc.nav.cause = "handleSearch"
                /\ doc.nav.path = "external"
                /\ doc.nav.url = last.href
             \/ /\ path = "external"
                /\ extUrl = last.href
    /\ (path \in {"results", "videos"} /\ KnownBang(Get(search, "q"))
            /\ OneLine(RemainderOf(Get(search, "q"))))
       => /\ doc.nav.cause = "bang"
          /\ RedirectsAsClaimed(Get(search, "q"), doc.nav.url)

C4_Witness ==
    /\ last.op = "handleSearch"
    /\ Trim(last.input) = <<"!", "g", " ", "&", "g">>
    /\ path = "external"
    /\ extUrl = <<"https://www.google.com/search?q=", "%", "2", "6", "g">>

\* C4 (as claimed): the same for every remainder.
C4_AnyRemainder ==
    /\ (last.op = "handleSearch" /\ KnownBang(Trim(last.input)))
       => /\ last.navigated
          /\ RedirectsAsClaimed(Trim(last.input), last.href)
    /\ (path \in {"results", "videos"} /\ KnownBang(Get(search, "q")))
       => /\ doc.nav.cause = "bang"
          /\ RedirectsAsClaimed(Get(search, "q"), doc.nav.url)

\* C5: a text that has not the bang shape, or whose trigger is not in the
\* table, is not redirected: the search form goes to ?q= followed by the
\* percent-encoded text, "!" included, which the next page reads back as its
\* query; a page opened with such a query asks for no redirect and sends the
\* percent-encoded query to the backend.
C5_Fallthrough ==
    /\ (last.op = "handleSearch" /\ Trim(last.input) # <<>>
            /\ ~KnownBang(Trim(last.input)))
       => /\ last.navigated
          /\ last.href = <<IF last.on = "index" THEN "results.html?q=" ELSE "?q=">>
                         \o encodeURIComponent(Trim(last.input))
          /\ LET tp == IF last.on = "index" THEN "results" ELSE last.on
                 ts == <<(<<"q", Trim(last.input)>>)>>
             IN  \/ /\ doc.nav.cause = "handleSearch"
                    /\ doc.nav.path = tp
                    /\ doc.nav.search = ts
                 \/ /\ doc.nav = NoNav
                    /\ path = tp
                    /\ search = ts
    /\ (path \in SearchPages /\ Get(search, "q") # Null /\ ~KnownBang(Get(search, "q")))
       => /\ doc.nav.cause # "bang"
          /\ Len(doc.requests) = 1
          /\ doc.requests[1].q = encodeURIComponent(Get(search, "q"))
          /\ PercentDecode(doc.requests[1].q) = Get(search, "q")

C5_Witness ==
    /\ last.op = "handleSearch"
    /\ last.input = <<" ", "!", "G", " ", "&">>
    /\ last.href = <<"?q=", "!", "G", "%", "2", "0", "%", "2", "6">>
    /\ path = "videos"
    /\ doc.nav = NoNav
    /\ doc.requests[1].q = <<"!", "G", "%", "2", "0", "%", "2", "6">>

\* C6: every link of a pagination strip leads to the same page with page = i
\* and q, safe, lang, engine and failed as they are now.
C6_PageLinksKeepParameters ==
    (path \in {"results", "videos"} /\ doc.pagination # <<>> /\ Has(search, "q"))
    => \A k \in 1..Len(doc.pagination) :
          LET t == doc.pagination[k].href
          IN  /\ t.path = path
              /\ parseInt(OrDefault(Get(t.search, "page"), <<"0">>)) = [nan |-> FALSE, n |-> k - 1]
              /\ \A key \in {"q", "safe", "lang", "engine", "failed"} :
                    Get(t.search, key) = Get(search, key)

\* C7: with the current page k in 0..9 the strip has exactly 10 links,
\* labelled 1..10, and exactly the link of index k is active.
C7_PaginationStrip ==
    (doc.pagination # <<>> /\ ~page(search).nan /\ page(search).n \in 0..9)
    => /\ Len(doc.pagination) = 10
       /\ \A k \in 1..10 :
             /\ doc.pagination[k].text = k
             /\ doc.pagination[k].active <=> (k = page(search).n + 1)

C7_Witness ==
    /\ path = "videos"
    /\ page(search).n = 7
    /\ Len(doc.pagination) = 10
    /\ doc.pagination[8].active

\* C8: a web payload with no results ends the load with the empty-state
\* message, no retry or reload asked for, and the infobox as the markup left it.
C8_EmptyPayload ==
    (path = "results" /\ doc.response.kind = "payload" /\ doc.response.results = <<>>)
    => /\ doc.pc = "done"
       /\ doc.resultsHtml = [kind |-> "empty", link |-> <<>>]
       /\ doc.items = <<>>
       /\ doc.nav.cause \in {"none", "bang"}
       /\ doc.locationUrl = Null
       /\ doc.infobox = HiddenInfobox

C8_Witness ==
    /\ path = "results"
    /\ doc.response.kind = "payload"
    /\ doc.response.results = <<>>
    /\ doc.response.infobox = "calc"
    /\ Get(search, "q") = <<"g">>
    /\ Get(search, "failed") = <<"true">>
    /\ doc.resultsHtml.kind = "empty"

\* C9: for a web payload with results the infobox is shown only for a
\* recognised tag; for "null", no field or another tag it stays hidden and
\* unchanged, and the load does not end in the error message.
C9_InfoboxOnlyWhenRecognised ==
    (/\ path = "results"
     /\ OrDefault(Get(search, "q"), <<>>) # <<>>
     /\ doc.response.kind = "payload"
     /\ Len(doc.response.results) >= 1)
    => /\ doc.infobox.display = "block" => doc.response.infobox \in Recognised
       /\ doc.response.infobox \notin Recognised =>
             (doc.infobox = HiddenInfobox /\ doc.resultsHtml.kind # "error")

\* C10: a rendered web result shows a title of at most 60 characters as it is
\* and a longer one as its first 60 characters and "..."; the same for the
\* body with 300.
C10_Truncation ==
    (path = "results" /\ doc.response.kind = "payload" /\ doc.response.results # <<>>)
    => /\ Len(doc.items) = Len(doc.response.results)
       /\ \A r \in 1..Len(doc.items) :
             LET raw == doc.response.results[r]
                 out == doc.items[r]
             IN  /\ Len(raw.title) <= 60 => out.title = raw.title
                 /\ Len(raw.title) > 60 =>
                       out.title = SubSeq(raw.title, 1, 60) \o <<".", ".", ".">>
                 /\ Len(raw.body) <= 300 => out.snippet = raw.body
                 /\ Len(raw.body) > 300 =>
                       out.snippet = SubSeq(raw.body, 1, 300) \o <<".", ".", ".">>

C10_Witness ==
    /\ path = "results"
    /\ Len(doc.items) = 1
    /\ Len(doc.response.results[1].title) = 61
    /\ Len(doc.items[1].title) = 63
    /\ Len(doc.response.results[1].body) = 300
    /\ doc.items[1].snippet = doc.response.results[1].body

\* the decimal numeral of a non-negative integer
IsNaturalText(t) == t # Null /\ t # <<>> /\ \A i \in 1..Len(t) : IsDigit(t[i])

\* C11: every request a search page sends carries safe = strict or off and,
\* where it carries a page, the numeral of a non-negative integer.
C11_RequestWellFormed ==
    (path \in SearchPages /\ OrDefault(Get(search, "q"), <<>>) # <<>>)
    => \A i \in 1..Len(doc.requests) :
          /\ doc.requests[i].safe \in {<<"strict">>, <<"off">>}
          /\ doc.requests[i].page # Null => IsNaturalText(doc.requests[i].page)

\* C12: a load of a search page sends at most one backend request, and the
\* response, whatever it is, adds none: the requests of the document are the
\* one request its load sent; a load whose query is no known bang has sent
\* exactly one.
C12_SingleRequestPerLoad ==
    path \in SearchPages
    => /\ Len(doc.requests) <= 1
       /\ doc.requests = LoadDoc(path, search).requests
       /\ ~KnownBang(Get(search, "q")) => Len(doc.requests) = 1

C12_Witness ==
    /\ path = "videos"
    /\ Get(search, "q") = <<"g">>
    /\ doc.response.kind = "noresults"
    /\ doc.pc = "done"
    /\ autoNavs = 1
    /\ Len(doc.requests) = 1

\* a video page whose query is not redirected as a bang on load
VideoPlain == path = "videos" /\ OnLoadBang(search) = NoNav

\* the load is over and nothing more will happen without the user
Settled == path = "external" \/ (doc.pc = "done" /\ doc.nav = NoNav)

\* C13: on the video page every noresults response asks for a reload of the
\* same location, no marker added; against a backend that always answers
\* noresults the video page never settles, every finished load being followed
\* by a new one, so that the reloads pass any bound, while the web and the
\* image page settle for good.
C13_VideoNeverSettles ==
    /\ []((path = "videos" /\ doc.response.kind = "noresults")
            => /\ doc.nav.cause = "reload"
               /\ doc.nav.path = path
               /\ doc.nav.search = search)
    /\ [](VideoPlain => ~Settled)
    /\ ((VideoPlain /\ doc.pc = "awaiting") ~> (VideoPlain /\ doc.pc = "done"))
    /\ ((VideoPlain /\ doc.pc = "done") ~> (VideoPlain /\ doc.pc = "awaiting"))
    /\ (VideoPlain ~> (autoNavs = MaxAuto))
    /\ [](path \in {"results", "images"} => <>[]Settled)

C13_Witness ==
    /\ path = "videos"
    /\ search = <<(<<"q", <<"g">>>>), (<<"failed", <<"true">>>>)>>
    /\ doc.response.kind = "noresults"
    /\ doc.nav.cause = "reload"
    /\ autoNavs >= 2

ParamNames == {"q", "safe", "page", "lang", "engine", "failed"}

Names(params) == {params[i][1] : i \in 1..Len(params)}

\* page p with the parameters params is the current page with every
\* parameter but key as it is
OnlySets(key, p, params) ==
    /\ p = path
    /\ Names(params) = Names(search) \cup {key}
    /\ \A other \in ParamNames \ {key} : Get(params, other) = Get(search, other)
    /\ page(params) = page(search)
    /\ failed(params) = failed(search)

\* the parameter a control sets
KeyOf(op) ==
    CASE op = "toggleSafeSearch" -> "safe"
      [] op = "changeLanguage"   -> "lang"
      [] op = "changeEngine"     -> "engine"

\* C14: toggleSafeSearch, changeLanguage and changeEngine ask for, and the
\* browser then loads, the same page with safe, lang or engine set and every
\* other parameter, q, page and failed among them, as it was;
\* toggleSafeSearch turns strict (or no value) into off and every other
\* value into strict.
C14_FrameOfControls ==
    [][/\ ToggleSafe =>
            /\ doc'.nav.cause = "toggleSafeSearch"
            /\ OnlySets("safe", doc'.nav.path, doc'.nav.search)
            /\ Get(doc'.nav.search, "safe") \in {<<"strict">>, <<"off">>}
            /\ Get(doc'.nav.search, "safe") = <<"off">>
                  <=> Get(search, "safe") \in {Null, <<>>, <<"strict">>}
       /\ ChangeLanguage =>
            /\ doc'.nav.cause = "changeLanguage"
            /\ OnlySets("lang", doc'.nav.path, doc'.nav.search)
            /\ Get(doc'.nav.search, "lang") = last'.input
       /\ ChangeEngine =>
            /\ doc'.nav.cause = "changeEngine"
            /\ OnlySets("engine", doc'.nav.path, doc'.nav.search)
            /\ Get(doc'.nav.search, "engine") = last'.input
       /\ (Commit /\ doc.nav.cause
                        \in {"toggleSafeSearch", "changeLanguage", "changeEngine"}) =>
            /\ OnlySets(KeyOf(doc.nav.cause), path', search')
            /\ doc.nav.cause = "toggleSafeSearch" =>
                  /\ safeSearch(search') \in {<<"strict">>, <<"off">>}
                  /\ safeSearch(search') = <<"off">> <=> safeSearch(search) = <<"strict">>
      ]_vars

C14_Witness ==
    /\ last.op = "toggleSafeSearch"
    /\ loads = 2
    /\ doc.nav = NoNav
    /\ path = "videos"
    /\ Get(search, "safe") = <<"off">>
    /\ Get(search, "q") = <<"g", " ", "&">>
    /\ Get(search, "page") = <<"x">>
    /\ Get(search, "failed") = <<"true">>
    /\ Get(search, "lang") = <<"de">>

\* a text the Bang Resolver redirects
Resolvable(t) == KnownBang(t) /\ OneLine(RemainderOf(t))

\* the page read with these parameters is in its default state
DefaultState(params) ==
    /\ page(params) = [nan |-> FALSE, n |-> 0]
    /\ failed(params) = <<"false">>
    /\ safeSearch(params) = <<"strict">>
    /\ language(params) = <<"en-GB">>
    /\ engine(params) = <<"duckduckgo">>

\* C15: submitting the search form with nothing but white space asks for no
\* navigation and leaves the location and the document (but for the box)
\* alone; with a text that is not a redirected bang it asks for the page with
\* the one parameter q = the trimmed text (the reference being the prefix and
\* the percent-encoded text), and the page the browser then loads reads page
\* 0, failed false, safe strict and the default language and engine, and
\* asks the backend for just that.
C15_SubmitResets ==
    [][/\ SubmitNav =>
            LET t == Trim(last'.input)
            IN  /\ last'.op = "handleSearch"
                /\ UNCHANGED <<path, search, extUrl>>
                /\ t = <<>> =>
                      /\ ~last'.navigated
                      /\ doc' = [doc EXCEPT !.searchInput = last'.input]
                /\ (t # <<>> /\ ~Resolvable(t)) =>
                      /\ last'.navigated
                      /\ last'.href =
                            <<IF path = "index" THEN "results.html?q=" ELSE "?q=">>
                            \o encodeURIComponent(t)
                      /\ doc'.nav.cause = "handleSearch"
                      /\ doc'.nav.path = (IF path = "index" THEN "results" ELSE path)
                      /\ doc'.nav.search = <<(<<"q", t>>)>>
                      /\ DefaultState(doc'.nav.search)
       /\ (Commit /\ doc.nav.cause = "handleSearch" /\ doc.nav.path # "external") =>
            /\ path' = (IF path = "index" THEN "results" ELSE path)
            /\ Len(search') = 1
            /\ Names(search') = {"q"}
            /\ query(search') \notin {Null, <<>>}
            /\ Trim(query(search')) = query(search')
            /\ last.navigated => query(search') = Trim(last.input)
            /\ DefaultState(search')
            /\ doc'.nav = NoNav
            /\ Len(doc'.requests) = 1
            /\ doc'.requests[1].safe = <<"strict">>
            /\ doc'.requests[1].page \in {Null, <<"0">>}
      ]_vars

C15_Witness ==
    /\ last.op = "handleSearch"
    /\ last.on = "videos"
    /\ last.input = <<" ", "g", " ">>
    /\ last.navigated
    /\ loads = 2
    /\ path = "videos"
    /\ search = <<(<<"q", <<"g">>>>)>>
    /\ doc.nav = NoNav
    /\ doc.requests[1].page = <<"0">>

====
